---- MODULE Spec2Model ----
(***************************************************************************)
(* State-machine model of the 5G RoC backend: chat sessions and streaming  *)
(* turns (routes/chat_routes.py), the document registry                    *)
(* (routes/resources_routes.py, rag/startup_common_embedder.py) and        *)
(* retrieval scoping (rag/rag_retriever.py).                               *)
(*                                                                         *)
(* Every request runs as a coroutine on one event loop: control can pass   *)
(* to another request only at an await.  An action of the model is one     *)
(* database operation together with the synchronous code that follows it   *)
(* up to the next await.                                                   *)
(***************************************************************************)
EXTENDS Integers, Sequences, FiniteSets, TLC

\* ------------------------------------------------------------------ bounds
MaxSessions == 1        \* sessions ever created (ObjectIds are never reused)
MaxChunks == 2          \* non-empty chunks llm.stream may deliver in one turn
MaxSelects == 1         \* calls of update_session_documents
MaxDocs == 3            \* document ObjectIds ever allocated
MaxHides == 2           \* calls of unlink_common_resource that insert
MaxRenames == 1         \* calls of rename_session that rename
MaxMessages == 22       \* messages ever stored, where one request slot serves turn after turn
MaxShortLog == 4        \* messages ever stored, where every session route is called
MaxRuns == 3            \* runs of embed_common_docs_on_startup (starts of the process)

\* --------------------------------------------------------- program constants
HistoryLimit == 12      \* .limit(12)
TopK == 5               \* k=5

\* ------------------------------------------------------------- input domains
Users == {"u1", "u2"}
Modes == {"knowledge", "analyst"}
Questions == {<<"q">>}
\* The model streams the characters of Answer in order (starting over at its
\* end), one per chunk, with empty chunks (chunk.content = "") in between.
Answer == <<"a", "b", "c">>
TurnIds == {"t1", "t2"}
DeleterIds == {"x1"}
UploadIds == {"p1", "p2"}
RemoverIds == {"r1"}
CuratorIds == {"c1", "c2"}
Titles == {"n"}
\* included_message_ids of update_memory: nothing, one message, ids that
\* include one of no message, every other message
MemoryChoices ==
    {{}, {<<"str", 2>>}, {<<"str", 0>>, <<"str", 1>>, <<"str", 3>>},
     {<<"str", n>> : n \in {k \in 1..MaxMessages : k % 2 = 1}}}
Filenames == {<<"a", ".txt">>, <<"b", ".txt">>, <<"x", ".exe">>}
Contents == {"B1", "B2", "BIG"}
DocIds == {<<"str", n>> : n \in 1..MaxDocs}
\* the selected_doc_ids a client sends: no selection, or one document id
SelectChoices == {{}} \cup {{d} : d \in DocIds}
UploadFailures == {"none", "extract", "embed", "add"}
\* the files of ./resources/common when the server starts
CommonFiles == [f \in {<<"c1", ".txt">>, <<"c2", ".txt">>} |-> "B2"]

\* ----------------------------------------------------------------- identifiers
\* bson.ObjectId and its str() form are different values: a Mongo query that
\* compares one with the other matches nothing.
ObjectId(s) == <<"oid", s[2]>>
Str(o) == <<"str", o[2]>>
NewObjectId(n) == <<"oid", n>>

VARIABLES
    chat_sessions,   \* db["chat_sessions"]: ObjectId -> row
    chat_messages,   \* db["chat_messages"]: rows in insertion (created_at) order
    next_session,    \* ObjectIds handed out so far to sessions
    next_message,    \* ObjectIds handed out so far to messages
    turn,            \* send_message coroutines
    deleter,         \* delete_session coroutines
    selects,         \* update_session_documents calls made
    documents,       \* db["documents"]: ObjectId -> row
    collection,      \* Chroma collection "knowledge_chunks": set of entries
    files,           \* file system: path -> bytes
    hidden_docs,     \* db["user_hidden_docs"]: rows in insertion order
    next_doc,        \* ObjectIds handed out so far to documents
    upload,          \* upload_resource coroutines
    remover,         \* delete_resource coroutines
    startup,         \* embed_common_docs_on_startup coroutine
    curator,         \* update_memory coroutines
    reply,           \* the response to the last rename_session or update_session_documents
    renames          \* rename_session calls that renamed

chatVars == <<chat_sessions, chat_messages, next_session, next_message, turn, deleter, selects>>
docVars == <<documents, collection, files, hidden_docs, next_doc, upload, remover, startup>>
reqVars == <<curator, reply, renames>>
vars == <<chatVars, docVars, reqVars>>

\* ------------------------------------------------------------------- helpers
Range(s) == {s[i] : i \in DOMAIN s}

RECURSIVE Flatten(_)
Flatten(ss) == IF ss = <<>> THEN <<>> ELSE Head(ss) \o Flatten(Tail(ss))

Remove(f, k) == [x \in DOMAIN f \ {k} |-> f[x]]

\* def compress_message(content, max_len=200): a content is a sequence of
\* characters; the alphabet of the model has no white space to strip.
CompressMaxLen == 200
compress_message(content) ==
    IF Len(content) <= CompressMaxLen THEN content
    ELSE SubSeq(content, 1, CompressMaxLen - 3) \o <<".", ".", ".">>

\* ------------------------------------------------------------------ retrieval
\* The where-filter retrieve_docs_for_user hands to collection.query.
DocFilter(allowed_doc_ids, user_id, e) ==
    IF allowed_doc_ids # {}
    THEN e.doc_id \in allowed_doc_ids
    ELSE e.user_id \in {user_id, "COMMON"}

\* Chroma orders hits by embedding distance; the model fixes one total order.
Rank(e) == e.doc_id[2] * 10 + e.i

RECURSIVE Ranked(_)
Ranked(S) ==
    IF S = {} THEN <<>>
    ELSE LET m == CHOOSE e \in S : \A o \in S : Rank(e) <= Rank(o)
         IN <<m>> \o Ranked(S \ {m})

\* documents.find_one({"_id": doc_id}) with the str doc_id of the Chroma metadata
Filename(doc_id) ==
    IF doc_id \in DOMAIN documents THEN documents[doc_id].filename ELSE "Unknown"

retrieve_docs_for_user(user_id, session_id, k) ==
    IF session_id \notin DOMAIN chat_sessions THEN <<>>
    ELSE LET allowed_doc_ids == chat_sessions[session_id].selected_docs
             hits == Ranked({e \in collection : DocFilter(allowed_doc_ids, user_id, e)})
             n == IF Len(hits) < k THEN Len(hits) ELSE k
         IN [i \in 1..n |-> [text |-> hits[i].document,
                              doc_id |-> hits[i].doc_id,
                              filename |-> Filename(hits[i].doc_id),
                              score |-> Rank(hits[i])]]

\* --------------------------------------------------------------- create_session
SessionRow(user_id, type) ==
    [user_id |-> user_id, type |-> type, title |-> <<"default", type>>,
     selected_docs |-> {}, updated_at |-> 0]

create_session(u, type) ==
    /\ next_session < MaxSessions
    /\ next_session' = next_session + 1
    /\ chat_sessions' = chat_sessions @@ (NewObjectId(next_session + 1) :> SessionRow(u, type))
    /\ UNCHANGED <<chat_messages, next_message, turn, deleter, selects, docVars, reqVars>>

\* a test for the session's existence alone
SessionExists(oid, u) == oid \in DOMAIN chat_sessions

\* The ownership test every session route starts with.
SessionOf(oid, u) == oid \in DOMAIN chat_sessions /\ chat_sessions[oid].user_id = u

\* chat_sessions.update_one({"_id": oid}, {"$set": ...}): no match, no change
UpdateSession(oid, field, value) ==
    IF oid \in DOMAIN chat_sessions
    THEN [chat_sessions EXCEPT ![oid] = [@ EXCEPT ![field] = value]]
    ELSE chat_sessions

\* ----------------------------------------------------------------- send_message
IdleTurn ==
    [pc |-> "idle", user_id |-> "-", sid |-> NewObjectId(0), message |-> <<>>,
     mode |-> "-", msg_count |-> 0, history |-> <<>>, extra_context |-> <<>>,
     docs |-> <<>>, final_prompt |-> <<>>, full_answer |-> <<>>, sent |-> <<>>]

\* a finished coroutine: its locals are gone, its outcome remains (and, for a
\* stream that broke, the fragments the caller has received)
Finished(outcome) == [IdleTurn EXCEPT !.pc = outcome]

MessageRow(t, role, content, sources) ==
    [id |-> NewObjectId(next_message + 1), session_id |-> Str(turn[t].sid),
     user_id |-> turn[t].user_id, role |-> role, content |-> content,
     short_content |-> compress_message(content), included_in_context |-> TRUE,
     sources |-> sources, turn |-> t]

SessionMessages(session_id) ==
    SelectSeq(chat_messages, LAMBDA m : m.session_id = session_id)

\* lines 177-184: look the session up; a missing or foreign session is a 404
SendFind(t, u, oid, msg) ==
    /\ turn[t].pc = "idle"
    /\ IF SessionOf(oid, u)
       THEN turn' = [turn EXCEPT ![t] = [@ EXCEPT !.pc = "found", !.user_id = u,
                         !.sid = oid, !.message = msg, !.mode = chat_sessions[oid].type]]
       ELSE turn' = [turn EXCEPT ![t] = Finished("notfound")]
    /\ UNCHANGED <<chat_sessions, chat_messages, next_session, next_message, deleter, selects, docVars, reqVars>>

\* lines 186-196: insert the user message
SendSaveUser(t) ==
    /\ turn[t].pc = "found"
    /\ chat_messages' = Append(chat_messages, MessageRow(t, "user", turn[t].message, <<>>))
    /\ next_message' = next_message + 1
    /\ turn' = [turn EXCEPT ![t] = [@ EXCEPT !.pc = "saved"]]
    /\ UNCHANGED <<chat_sessions, next_session, deleter, selects, docVars, reqVars>>

\* a test that every count of a session with messages passes
AnyMessage(msg_count) == msg_count >= 1

\* line 201: if msg_count == 1
FirstMessage(msg_count) == msg_count = 1

\* lines 199-201: count the session's messages
SendCount(t) ==
    /\ turn[t].pc = "saved"
    /\ LET msg_count == Len(SessionMessages(Str(turn[t].sid)))
       IN turn' = [turn EXCEPT ![t] = [@ EXCEPT !.msg_count = msg_count,
                        !.pc = IF FirstMessage(msg_count) THEN "counted" ELSE "titled"]]
    /\ UNCHANGED <<chat_sessions, chat_messages, next_session, next_message, deleter, selects, docVars, reqVars>>

AutoTitle(msg) == <<"auto", SubSeq(compress_message(msg), 1, IF Len(compress_message(msg)) < 50 THEN Len(compress_message(msg)) ELSE 50)>>

\* lines 202-206: the auto-title of the first message
SendTitle(t) ==
    /\ turn[t].pc = "counted"
    /\ chat_sessions' = UpdateSession(turn[t].sid, "title", AutoTitle(turn[t].message))
    /\ turn' = [turn EXCEPT ![t] = [@ EXCEPT !.pc = "titled"]]
    /\ UNCHANGED <<chat_messages, next_session, next_message, deleter, selects, docVars, reqVars>>

\* a window that keeps the oldest rows
FirstN(s, n) == IF Len(s) <= n THEN s ELSE SubSeq(s, 1, n)

\* find({...included_in_context: True}).sort("created_at", -1).limit(12), reversed
LastN(s, n) == IF Len(s) <= n THEN s ELSE SubSeq(s, Len(s) - n + 1, Len(s))

\* a window over every message of the session, whatever its flag
HistoryOfAll(session_id) == LastN(SessionMessages(session_id), HistoryLimit)

History(session_id) ==
    LastN(SelectSeq(SessionMessages(session_id), LAMBDA m : m.included_in_context), HistoryLimit)

\* lines 210-224: read the history block
SendHistory(t) ==
    /\ turn[t].pc = "titled"
    /\ turn' = [turn EXCEPT ![t] = [@ EXCEPT !.pc = "history",
                     !.history = [i \in DOMAIN History(Str(turn[t].sid)) |->
                                    <<History(Str(turn[t].sid))[i].role, History(Str(turn[t].sid))[i].content>>]]]
    /\ UNCHANGED <<chat_sessions, chat_messages, next_session, next_message, deleter, selects, docVars, reqVars>>

\* lines 226-246: the auxiliary block.  ok = FALSE is retrieve_docs_for_user (or
\* build_network_summary) raising: the handler catches it and folds a warning
\* into the context, and in knowledge mode leaves the local `docs` unbound.
ExtraContext(mode, ok, docs) ==
    IF mode = "knowledge"
    THEN IF ok
         THEN <<"Relevant documents:",
                IF docs # <<>> THEN [i \in DOMAIN docs |-> docs[i].text]
                ELSE <<"No relevant documents found.">> >>
         ELSE <<"(Warning: document retrieval failed)">>
    ELSE IF ok THEN <<"Current network summary:", "network_summary">>
         ELSE <<"(Warning: network summary failed)">>

\* line 268: docs_for_tooltip = docs if mode == "knowledge" else [].  Reading
\* the unbound local raises UnboundLocalError inside the try of line 266,
\* which line 297 turns into HTTP 500.
DocsBound(mode, ok) == mode # "knowledge" \/ ok

\* services/chat_llm.py, build_system_prompt: the opening sentence stands for
\* the text of each branch
build_system_prompt(mode) ==
    IF mode = "knowledge"
    THEN "You are a 5G telecom expert assistant. "
    ELSE "You are a 5G network operations analyst assistant. "

\* lines 220-224: one "<prefix>: <content>" line per history record, or the
\* placeholder
HistoryText(history) ==
    IF history # <<>>
    THEN [i \in DOMAIN history |->
            <<IF history[i][1] = "user" THEN "User" ELSE "Assistant", ": ", history[i][2]>>]
    ELSE <<"No prior messages.">>

\* a prompt that opens with the user's question
QuestionFirst(mode, history, extra_context, message) ==
    <<[type |-> "system", content |-> build_system_prompt(mode)],
      [type |-> "human",
       content |-> <<"User question:", message,
                     "Here is prior conversation context:", HistoryText(history),
                     "Additional context:", extra_context>>]>>

\* lines 248-264: final_prompt
FinalPrompt(mode, history, extra_context, message) ==
    <<[type |-> "system", content |-> build_system_prompt(mode)],
      [type |-> "human",
       content |-> <<"Here is prior conversation context:", HistoryText(history),
                     "Additional context:", extra_context,
                     "User question:", message>>]>>

\* lines 226-268 and 295: build the context and the prompt, freeze the
\* sources, return the StreamingResponse
SendContext(t, ok) ==
    /\ turn[t].pc = "history"
    /\ LET mode == turn[t].mode
           docs == IF mode = "knowledge" /\ ok
                   THEN retrieve_docs_for_user(turn[t].user_id, turn[t].sid, TopK)
                   ELSE <<>>
       IN turn' = [turn EXCEPT ![t] =
                      IF DocsBound(mode, ok)
                      THEN [@ EXCEPT !.extra_context = ExtraContext(mode, ok, docs),
                                     !.final_prompt = FinalPrompt(mode, turn[t].history,
                                         ExtraContext(mode, ok, docs), turn[t].message),
                                     !.docs = docs, !.pc = "streaming"]
                      ELSE Finished("error500")]
    /\ UNCHANGED <<chat_sessions, chat_messages, next_session, next_message, deleter, selects, docVars, reqVars>>

\* lines 273-276: one chunk of llm.stream; an empty chunk.content is skipped
AccumulatePrepend(full_answer, content) == content \o full_answer

Forward(sent, content) == IF content # <<>> THEN Append(sent, content) ELSE sent
Accumulate(full_answer, content) == IF content # <<>> THEN full_answer \o content ELSE full_answer

\* the contents the next chunk of llm.stream can have
Fragments(sent) == {<<>>, <<Answer[(Len(sent) % Len(Answer)) + 1]>>}

StreamChunk(t, content) ==
    /\ turn[t].pc = "streaming"
    /\ Len(turn[t].sent) < MaxChunks
    /\ turn' = [turn EXCEPT ![t] = [@ EXCEPT
                    !.full_answer = Accumulate(@, content),
                    !.sent = Forward(@, content)]]
    /\ UNCHANGED <<chat_sessions, chat_messages, next_session, next_message, deleter, selects, docVars, reqVars>>

\* an assistant message whose sources are retrieved when it is stored
AssistantRowFresh(t) ==
    MessageRow(t, "assistant", turn[t].full_answer,
               IF turn[t].mode = "knowledge"
               THEN retrieve_docs_for_user(turn[t].user_id, turn[t].sid, TopK)
               ELSE <<>>)

\* lines 279-288: the stream is exhausted; insert the assistant message
AssistantRow(t) == MessageRow(t, "assistant", turn[t].full_answer, turn[t].docs)

\* a handler that wrote the buffered answer back from a finally block
StreamRaisePersists(t) ==
    /\ turn[t].pc = "streaming"
    /\ chat_messages' = Append(chat_messages, AssistantRow(t))
    /\ next_message' = next_message + 1
    /\ turn' = [turn EXCEPT ![t] = [Finished("failed") EXCEPT !.sent = turn[t].sent]]
    /\ UNCHANGED <<chat_sessions, next_session, deleter, selects, docVars, reqVars>>

\* line 273: llm.stream raises; the exception leaves token_stream, so lines
\* 279-293 never run
StreamRaise(t) ==
    /\ turn[t].pc = "streaming"
    /\ turn' = [turn EXCEPT ![t] = [Finished("failed") EXCEPT !.sent = turn[t].sent]]
    /\ UNCHANGED <<chat_sessions, chat_messages, next_session, next_message, deleter, selects, docVars, reqVars>>

StreamEnd(t) ==
    /\ turn[t].pc = "streaming"
    /\ chat_messages' = Append(chat_messages, AssistantRow(t))
    /\ next_message' = next_message + 1
    /\ turn' = [turn EXCEPT ![t] = [@ EXCEPT !.pc = "appended"]]
    /\ UNCHANGED <<chat_sessions, next_session, deleter, selects, docVars, reqVars>>

\* an update that writes the value the session has
NotTouched(oid) == IF oid \in DOMAIN chat_sessions THEN chat_sessions[oid].updated_at ELSE 0

Touched(oid) == IF oid \in DOMAIN chat_sessions THEN chat_sessions[oid].updated_at + 1 ELSE 0

\* lines 290-293: bump the session's updated_at
SendTouch(t) ==
    /\ turn[t].pc = "appended"
    /\ chat_sessions' = UpdateSession(turn[t].sid, "updated_at", Touched(turn[t].sid))
    /\ turn' = [turn EXCEPT ![t] = Finished("done")]
    /\ UNCHANGED <<chat_messages, next_session, next_message, deleter, selects, docVars, reqVars>>

\* --------------------------------------------------------------- delete_session
IdleDeleter == [pc |-> "idle", sid |-> NewObjectId(0)]

\* lines 310-315
DeleteFind(x, u, oid) ==
    /\ deleter[x].pc = "idle"
    /\ deleter' = [deleter EXCEPT ![x] =
                      IF SessionOf(oid, u) THEN [pc |-> "found", sid |-> oid]
                      ELSE [pc |-> "notfound", sid |-> NewObjectId(0)]]
    /\ UNCHANGED <<chat_sessions, chat_messages, next_session, next_message, turn, selects, docVars, reqVars>>

\* delete_one in the place of delete_many: only the oldest message goes
DeleteOneMessage(x) ==
    /\ deleter[x].pc = "found"
    /\ LET hit == {i \in DOMAIN chat_messages : chat_messages[i].session_id = Str(deleter[x].sid)}
       IN chat_messages' = IF hit = {} THEN chat_messages
                           ELSE LET first == CHOOSE i \in hit : \A j \in hit : i <= j
                                IN SubSeq(chat_messages, 1, first - 1)
                                     \o SubSeq(chat_messages, first + 1, Len(chat_messages))
    /\ deleter' = [deleter EXCEPT ![x] = [@ EXCEPT !.pc = "emptied"]]
    /\ UNCHANGED <<chat_sessions, next_session, next_message, turn, selects, docVars, reqVars>>

\* line 318: chat_messages.delete_many({"session_id": session_id})
DeleteMessages(x) ==
    /\ deleter[x].pc = "found"
    /\ chat_messages' = SelectSeq(chat_messages, LAMBDA m : m.session_id # Str(deleter[x].sid))
    /\ deleter' = [deleter EXCEPT ![x] = [@ EXCEPT !.pc = "emptied"]]
    /\ UNCHANGED <<chat_sessions, next_session, next_message, turn, selects, docVars, reqVars>>

\* line 321: chat_sessions.delete_one({"_id": oid})
DeleteSession(x) ==
    /\ deleter[x].pc = "emptied"
    /\ chat_sessions' = Remove(chat_sessions, deleter[x].sid)
    /\ deleter' = [deleter EXCEPT ![x] = [@ EXCEPT !.pc = "done"]]
    /\ UNCHANGED <<chat_messages, next_session, next_message, turn, selects, docVars, reqVars>>

\* ------------------------------------------------------------------- responses
\* what a handler that runs in one step hands back: raise HTTPException(404,
\* "Session not found") or the message of its return statement
Reply(op, status, detail) == [op |-> op, status |-> status, detail |-> detail]

\* ----------------------------------------------------- update_session_documents
\* lines 362-376.  The two database operations are modelled as one step at the
\* update: a session's owner never changes and a deleted session never comes
\* back, so the find of line 364 cannot be invalidated except by a delete, after
\* which update_one matches nothing.
update_session_documents(u, oid, selected_doc_ids) ==
    /\ IF SessionOf(oid, u)
       THEN /\ selects < MaxSelects
            /\ selects' = selects + 1
            /\ chat_sessions' = [chat_sessions EXCEPT ![oid] =
                                    [@ EXCEPT !.selected_docs = selected_doc_ids,
                                              !.updated_at = @ + 1]]
            /\ reply' = Reply("update_session_documents", 200, "Session document filter updated")
       ELSE /\ reply' = Reply("update_session_documents", 404, "Session not found")
            /\ UNCHANGED <<chat_sessions, selects>>
    /\ UNCHANGED <<chat_messages, next_session, next_message, turn, deleter, docVars, curator, renames>>

\* --------------------------------------------------------------- rename_session
\* lines 329-349, one step for the reason given for update_session_documents
rename_session(u, oid, title) ==
    /\ IF SessionOf(oid, u)
       THEN /\ renames < MaxRenames
            /\ renames' = renames + 1
            /\ chat_sessions' = [chat_sessions EXCEPT ![oid] =
                                    [@ EXCEPT !.title = <<"given", title>>,
                                              !.updated_at = @ + 1]]
            /\ reply' = Reply("rename_session", 200, "Session renamed")
       ELSE /\ reply' = Reply("rename_session", 404, "Session not found")
            /\ UNCHANGED <<chat_sessions, renames>>
    /\ UNCHANGED <<chat_messages, next_session, next_message, turn, deleter, selects, docVars, curator>>

\* --------------------------------------------------------- get_session_messages
\* lines 112-135: a read; the rows of the session by created_at, as returned
Shown(m) ==
    [id |-> Str(m.id), role |-> m.role, content |-> m.content,
     short_content |-> m.short_content, included_in_context |-> m.included_in_context,
     sources |-> m.sources]

get_session_messages(u, oid) ==
    IF SessionOf(oid, u)
    THEN [status |-> 200,
          body |-> [i \in DOMAIN SessionMessages(Str(oid)) |-> Shown(SessionMessages(Str(oid))[i])]]
    ELSE [status |-> 404, body |-> "Session not found"]

\* ---------------------------------------------------------------- update_memory
IdleCurator ==
    [pc |-> "idle", sid |-> NewObjectId(0), include_set |-> {}, batch |-> <<>>, pos |-> 0]

\* lines 149-153: the ownership test
MemoryFind(c, u, oid, included_message_ids) ==
    /\ curator[c].pc = "idle"
    /\ curator' = [curator EXCEPT ![c] =
                      IF SessionOf(oid, u)
                      THEN [@ EXCEPT !.pc = "found", !.sid = oid,
                                     !.include_set = included_message_ids]
                      ELSE [IdleCurator EXCEPT !.pc = "notfound"]]
    /\ UNCHANGED <<chatVars, docVars, reply, renames>>

\* line 157: the cursor of chat_messages.find({"session_id": session_id})
\* fetches its first batch (the whole result, for a session of up to 101
\* messages) when the loop asks for the first row
MemoryFetch(c) ==
    /\ curator[c].pc = "found"
    /\ LET rows == SessionMessages(Str(curator[c].sid))
       IN curator' = [curator EXCEPT ![c] =
                         IF rows = <<>> THEN [IdleCurator EXCEPT !.pc = "done"]
                         ELSE [@ EXCEPT !.pc = "loop", !.pos = 1,
                                        !.batch = [i \in DOMAIN rows |-> rows[i].id]]]
    /\ UNCHANGED <<chatVars, docVars, reply, renames>>

\* line 158: flag = str(m["_id"]) in include_set
FlagAdded(m, include_set) == m.included_in_context \/ Str(m.id) \in include_set

Flag(m, include_set) == Str(m.id) \in include_set

\* lines 158-162: update_one for the row the loop stands at; a row that a
\* delete_session has removed meanwhile matches nothing
MemoryUpdate(c) ==
    /\ curator[c].pc = "loop"
    /\ chat_messages' = [i \in DOMAIN chat_messages |->
                            IF chat_messages[i].id = curator[c].batch[curator[c].pos]
                            THEN [chat_messages[i] EXCEPT !.included_in_context =
                                      Flag(chat_messages[i], curator[c].include_set)]
                            ELSE chat_messages[i]]
    /\ curator' = [curator EXCEPT ![c] =
                      IF curator[c].pos = Len(curator[c].batch)
                      THEN [IdleCurator EXCEPT !.pc = "done"]
                      ELSE [@ EXCEPT !.pos = @ + 1]]
    /\ UNCHANGED <<chat_sessions, next_session, next_message, turn, deleter, selects,
                   docVars, reply, renames>>

\* ------------------------------------------------------------ the response stream
\* the status line the caller of send_message has received: 404 and 500 are
\* raised by the handler, 200 is sent when the StreamingResponse of line 295
\* starts, before token_stream runs
StatusOf(pc) ==
    CASE pc = "notfound" -> 404
      [] pc = "error500" -> 500
      [] pc \in {"streaming", "appended", "done", "failed", "cancelled"} -> 200
      [] OTHER -> 0

ResponseStatus(t) == StatusOf(turn[t].pc)

\* the caller disconnects while token_stream is suspended at the yield of
\* line 276: the response task is cancelled there, so lines 279-293 never run
StreamDisconnect(t) ==
    /\ turn[t].pc = "streaming"
    /\ turn[t].sent # <<>>
    /\ turn' = [turn EXCEPT ![t] = [Finished("cancelled") EXCEPT !.sent = turn[t].sent]]
    /\ UNCHANGED <<chat_sessions, chat_messages, next_session, next_message, deleter, selects, docVars, reqVars>>

\* the request slot of a finished send_message takes the next request
TurnOver == {"notfound", "error500", "failed", "cancelled", "done"}

NextRequest(t) ==
    /\ turn[t].pc \in TurnOver
    /\ turn' = [turn EXCEPT ![t] = IdleTurn]
    /\ UNCHANGED <<chat_sessions, chat_messages, next_session, next_message, deleter, selects, docVars, reqVars>>

\* ------------------------------------------------------------ document registry
\* A filename is <<stem, extension>>; a path is <<directory, filename>>.
Ext(filename) == filename[2]
ALLOWED_EXTENSIONS == {".pdf", ".txt", ".md"}
MAX_FILE_SIZE_MB == 10
SizeMB(bytes) == IF bytes = "BIG" THEN 11 ELSE 1

\* hashlib.sha256 over the file's bytes: distinct contents, distinct digests
compute_file_hash(path) == <<"sha256", files[path]>>

\* chunk_text(extract_text_from_file(path)): the chunks of the file's text
chunk_text(bytes) == IF bytes = "B2" THEN <<"k1", "k2">> ELSE <<"k1">>

\* validate_file: None when the file passes
validate_file(filename, bytes) ==
    IF Ext(filename) \notin ALLOWED_EXTENSIONS THEN "InvalidInput"
    ELSE IF SizeMB(bytes) > MAX_FILE_SIZE_MB THEN "InvalidInput"
    ELSE "ok"

\* the entries collection.add receives for one document
Entries(doc_id, user_id, doc_type, bytes) ==
    {[doc_id |-> Str(doc_id), i |-> i, document |-> <<bytes, chunk_text(bytes)[i]>>,
      user_id |-> user_id, doc_type |-> doc_type] : i \in DOMAIN chunk_text(bytes)}

DocumentRow(filename, doc_type, owner, path, file_hash) ==
    [filename |-> filename, doc_type |-> doc_type, owner_user_id |-> owner,
     path |-> path, file_hash |-> file_hash]

\* ---------------------------------------------------------------- upload_resource
IdleUpload ==
    [pc |-> "idle", user_id |-> "-", file_path |-> <<"-", <<"-", "-">> >>,
     file_hash |-> <<"sha256", "-">>, doc_id |-> NewObjectId(0), status |-> "-"]

\* a finished upload: its locals are gone, its response remains
Uploaded(status) == [IdleUpload EXCEPT !.pc = "done", !.status = status]

RequestsServed == startup.pc = "done"

\* lines 84-103: validate, save the file under the user's folder (replacing a
\* file of that name), hash it
UploadStart(p, u, filename, bytes) ==
    /\ RequestsServed
    /\ upload[p].pc = "idle"
    /\ IF validate_file(filename, bytes) # "ok"
       THEN /\ upload' = [upload EXCEPT ![p] = Uploaded("InvalidInput")]
            /\ UNCHANGED files
       ELSE LET file_path == <<u, filename>>
            IN /\ files' = [x \in DOMAIN files \cup {file_path} |->
                               IF x = file_path THEN bytes ELSE files[x]]
               /\ upload' = [upload EXCEPT ![p] = [@ EXCEPT !.pc = "saved", !.user_id = u,
                                 !.file_path = file_path, !.file_hash = <<"sha256", bytes>>]]
    /\ UNCHANGED <<chatVars, reqVars, documents, collection, hidden_docs, next_doc, remover, startup>>

\* the duplicate test with the query of the startup embedder
ExistingShared(user_id, file_hash) ==
    {d \in DOMAIN documents : /\ documents[d].doc_type = "common"
                              /\ documents[d].file_hash = file_hash}

\* the duplicate test widened to the shared documents
ExistingOrShared(user_id, file_hash) ==
    {d \in DOMAIN documents : /\ \/ documents[d].owner_user_id = user_id
                                 \/ documents[d].doc_type = "common"
                              /\ documents[d].file_hash = file_hash}

\* lines 100-103: the duplicate test
Existing(user_id, file_hash) ==
    {d \in DOMAIN documents : /\ documents[d].owner_user_id = user_id
                              /\ documents[d].file_hash = file_hash}

\* lines 105-128: the result of the duplicate test, then extraction, chunking,
\* embedding and collection.add.  failure names the step that raises.
UploadCheck(p, failure) ==
    /\ upload[p].pc = "saved"
    /\ next_doc < MaxDocs
    /\ LET u == upload[p].user_id
           path == upload[p].file_path
       IN IF Existing(u, upload[p].file_hash) # {}
          THEN /\ files' = Remove(files, path)
               /\ upload' = [upload EXCEPT ![p] = Uploaded(IF path \in DOMAIN files THEN "DuplicateContent" ELSE "error")]
               /\ UNCHANGED <<collection, next_doc>>
          ELSE IF failure # "none" \/ path \notin DOMAIN files
          THEN /\ upload' = [upload EXCEPT ![p] = Uploaded("error")]
               /\ UNCHANGED <<files, collection, next_doc>>
          ELSE /\ next_doc' = next_doc + 1
               /\ collection' = collection \cup
                                   Entries(NewObjectId(next_doc + 1), u, "user", files[path])
               /\ upload' = [upload EXCEPT ![p] = [@ EXCEPT !.pc = "indexed",
                                 !.doc_id = NewObjectId(next_doc + 1)]]
               /\ UNCHANGED files
    /\ UNCHANGED <<chatVars, reqVars, documents, hidden_docs, remover, startup>>

\* lines 131-142: documents.insert_one; ok = FALSE is the insert (or the
\* os.path.getsize of its argument) raising
UploadInsert(p, ok) ==
    /\ upload[p].pc = "indexed"
    /\ IF ok /\ upload[p].file_path \in DOMAIN files
       THEN /\ documents' = documents @@ (upload[p].doc_id :>
                    DocumentRow(upload[p].file_path[2], "user", upload[p].user_id,
                                upload[p].file_path, upload[p].file_hash))
            /\ upload' = [upload EXCEPT ![p] = Uploaded("ok")]
       ELSE /\ upload' = [upload EXCEPT ![p] = Uploaded("error")]
            /\ UNCHANGED documents
    /\ UNCHANGED <<chatVars, reqVars, collection, files, hidden_docs, next_doc, remover, startup>>

\* ---------------------------------------------------------------- delete_resource
IdleRemover == [pc |-> "idle", doc_id |-> NewObjectId(0), status |-> "-"]

\* lines 158-162 with a shared document refused alone
ImmutableOnly(doc, user_id) ==
    IF doc.doc_type = "common" THEN "Immutable" ELSE "none"

\* lines 158-162: a common document is refused, then a document of another owner
Refusal(doc, user_id) ==
    IF doc.doc_type = "common" THEN "Immutable"
    ELSE IF doc.owner_user_id # user_id THEN "NotOwner"
    ELSE "none"

\* lines 152-168: find the row, refuse a common or a foreign document, remove
\* the file if it exists, delete the index entries
RemoveFind(r, u, doc_id) ==
    /\ RequestsServed
    /\ remover[r].pc = "idle"
    /\ LET oid == ObjectId(doc_id)
       IN IF oid \notin DOMAIN documents
          THEN /\ remover' = [remover EXCEPT ![r] = [@ EXCEPT !.pc = "done", !.status = "NotFound"]]
               /\ UNCHANGED <<files, collection>>
          ELSE IF Refusal(documents[oid], u) # "none"
          THEN /\ remover' = [remover EXCEPT ![r] = [@ EXCEPT !.pc = "done",
                                 !.status = Refusal(documents[oid], u)]]
               /\ UNCHANGED <<files, collection>>
          ELSE /\ files' = Remove(files, documents[oid].path)
               /\ collection' = {e \in collection : e.doc_id # doc_id}
               /\ remover' = [remover EXCEPT ![r] = [@ EXCEPT !.pc = "unindexed", !.doc_id = oid]]
    /\ UNCHANGED <<chatVars, reqVars, documents, hidden_docs, next_doc, upload, startup>>

\* line 170: documents.delete_one; ok = FALSE is the delete raising
RemoveRow(r, ok) ==
    /\ remover[r].pc = "unindexed"
    /\ documents' = IF ok THEN Remove(documents, remover[r].doc_id) ELSE documents
    /\ remover' = [remover EXCEPT ![r] = [@ EXCEPT !.pc = "done",
                      !.doc_id = NewObjectId(0),
                      !.status = IF ok THEN "ok" ELSE "error"]]
    /\ UNCHANGED <<chatVars, reqVars, collection, files, hidden_docs, next_doc, upload, startup>>

\* --------------------------------------------------------- unlink_common_resource
\* lines 181-193.  One step: a common row is never removed, so the find of
\* line 182 still holds at the insert of line 187.
unlink_common_resource(u, doc_id) ==
    /\ RequestsServed
    /\ Len(hidden_docs) < MaxHides
    /\ ObjectId(doc_id) \in DOMAIN documents
    /\ documents[ObjectId(doc_id)].doc_type = "common"
    /\ hidden_docs' = Append(hidden_docs, [user_id |-> u, doc_id |-> doc_id])
    /\ UNCHANGED <<chatVars, reqVars, documents, collection, files, next_doc, upload, remover, startup>>

\* ------------------------------------------------------------------ get_resources
\* lines 56-57: the doc_id of every Hide record of the user
HiddenIdsOfAnyone(user_id) == {hidden_docs[i].doc_id : i \in DOMAIN hidden_docs}

HiddenIds(user_id) ==
    {hidden_docs[i].doc_id : i \in {j \in DOMAIN hidden_docs : hidden_docs[j].user_id = user_id}}

\* lines 62-65: the rows the loop skips
Skipped(doc_id, user_id) ==
    \/ documents[doc_id].doc_type = "common" /\ Str(doc_id) \in HiddenIds(user_id)
    \/ documents[doc_id].doc_type = "user" /\ documents[doc_id].owner_user_id # user_id

\* lines 59-75: the rows of documents.find() in _id order, each as returned
RECURSIVE Listed(_, _)
Listed(ids, user_id) ==
    IF ids = {} THEN <<>>
    ELSE LET d == CHOOSE x \in ids : \A o \in ids : x[2] <= o[2]
         IN (IF Skipped(d, user_id) THEN <<>>
             ELSE <<[id |-> Str(d), filename |-> documents[d].filename,
                     doc_type |-> documents[d].doc_type]>>)
            \o Listed(ids \ {d}, user_id)

get_resources(user_id) == Listed(DOMAIN documents, user_id)

\* ------------------------------------------------------------ next requests
\* the slot of a finished upload_resource or delete_resource takes the next call
NextUpload(p) ==
    /\ upload[p].pc = "done"
    /\ upload' = [upload EXCEPT ![p] = IdleUpload]
    /\ UNCHANGED <<chatVars, reqVars, documents, collection, files, hidden_docs, next_doc, remover, startup>>

NextRemoval(r) ==
    /\ remover[r].pc = "done"
    /\ remover' = [remover EXCEPT ![r] = IdleRemover]
    /\ UNCHANGED <<chatVars, reqVars, documents, collection, files, hidden_docs, next_doc, upload, startup>>

\* every slot is free: the calls before have returned
RegistryIdle ==
    /\ \A p \in UploadIds : upload[p].pc = "idle"
    /\ \A r \in RemoverIds : remover[r].pc = "idle"

\* ----------------------------------------------------- embed_common_docs_on_startup
\* a duplicate test that looks for the owner the index entries carry, where
\* the rows of shared documents carry no owner
ExistingOwnedByCommon(file_hash) ==
    {d \in DOMAIN documents : /\ documents[d].owner_user_id = "COMMON"
                              /\ documents[d].file_hash = file_hash}

\* lines 30-36: documents.find_one of a shared row with the hash of the file
ExistingCommon(file_hash) ==
    {d \in DOMAIN documents : /\ documents[d].doc_type = "common"
                              /\ documents[d].file_hash = file_hash}

\* lines 22-36: the next file of os.listdir, its hash and the duplicate test;
\* lines 40-58: extraction, chunking, embedding and collection.add
StartupScan(filename) ==
    /\ startup.pc = "scan"
    /\ filename \in startup.todo
    /\ LET path == <<"common", filename>>
           file_hash == compute_file_hash(path)
           existing == ExistingCommon(file_hash)
       IN IF existing # {}
          THEN /\ startup' = [startup EXCEPT !.todo = @ \ {filename}]
               /\ UNCHANGED <<collection, next_doc>>
          ELSE /\ next_doc < MaxDocs
               /\ next_doc' = next_doc + 1
               /\ collection' = collection \cup
                                   Entries(NewObjectId(next_doc + 1), "COMMON", "common", files[path])
               /\ startup' = [startup EXCEPT !.pc = "indexed", !.filename = filename,
                                              !.doc_id = NewObjectId(next_doc + 1)]
    /\ UNCHANGED <<chatVars, reqVars, documents, files, hidden_docs, upload, remover>>

\* lines 60-69: documents.insert_one of the common row
StartupInsert ==
    /\ startup.pc = "indexed"
    /\ LET path == <<"common", startup.filename>>
       IN documents' = documents @@ (startup.doc_id :>
              DocumentRow(startup.filename, "common", "None", path, compute_file_hash(path)))
    /\ startup' = [startup EXCEPT !.pc = "scan", !.todo = @ \ {startup.filename}]
    /\ UNCHANGED <<chatVars, reqVars, collection, files, hidden_docs, next_doc, upload, remover>>

\* the loop of line 22 is exhausted; main.py on_startup returns and the server
\* starts to serve requests
StartupDone ==
    /\ startup.pc = "scan"
    /\ startup.todo = {}
    /\ startup' = [startup EXCEPT !.pc = "done", !.completed = TRUE]
    /\ UNCHANGED <<chatVars, reqVars, documents, collection, files, hidden_docs, next_doc, upload, remover>>

\* the state of the embedder when the process starts: os.listdir of the
\* shared directory is still to be walked
NewRun(run, completed) ==
    [pc |-> "scan", todo |-> DOMAIN CommonFiles, filename |-> <<"-", "-">>,
     doc_id |-> NewObjectId(0), run |-> run, completed |-> completed]

FirstRun == NewRun(1, FALSE)

\* lines 60-69: documents.insert_one raises after collection.add has stored
\* the entries; the exception leaves on_startup and the application does not
\* start
StartupRaise ==
    /\ startup.pc = "indexed"
    /\ startup' = [startup EXCEPT !.pc = "raised"]
    /\ UNCHANGED <<chatVars, reqVars, documents, collection, files, hidden_docs, next_doc, upload, remover>>

\* the process is started again between two requests: on_startup calls
\* embed_common_docs_on_startup once more over the shared directory, whose
\* files no route writes or removes
StartupAgain ==
    /\ startup.pc \in {"done", "raised"}
    /\ startup.run < MaxRuns
    /\ RegistryIdle
    /\ startup' = NewRun(startup.run + 1, startup.completed)
    /\ UNCHANGED <<chatVars, reqVars, documents, collection, files, hidden_docs, next_doc, upload, remover>>

\* ------------------------------------------------------------- specifications
Init ==
    /\ chat_sessions = <<>>
    /\ chat_messages = <<>>
    /\ next_session = 0
    /\ next_message = 0
    /\ turn = [t \in TurnIds |-> IdleTurn]
    /\ deleter = [x \in DeleterIds |-> IdleDeleter]
    /\ selects = 0
    /\ documents = <<>>
    /\ collection = {}
    /\ files = [path \in {<<"common", f>> : f \in DOMAIN CommonFiles} |-> CommonFiles[path[2]]]
    /\ hidden_docs = <<>>
    /\ next_doc = 0
    /\ upload = [p \in UploadIds |-> IdleUpload]
    /\ remover = [r \in RemoverIds |-> IdleRemover]
    /\ startup = FirstRun
    /\ curator = [c \in CuratorIds |-> IdleCurator]
    /\ reply = Reply("-", 0, "-")
    /\ renames = 0

SessionIds == {NewObjectId(n) : n \in 1..MaxSessions}

StartupNext ==
    \/ \E f \in DOMAIN CommonFiles : StartupScan(f)
    \/ StartupInsert
    \/ StartupDone

\* request slots are taken in the order the requests arrive
Arrived(t) == t = "t2" => turn["t1"].pc # "idle"

ChatNext ==
    \/ \E u \in Users, type \in Modes : RequestsServed /\ create_session(u, type)
    \/ \E t \in TurnIds, u \in Users, oid \in SessionIds, msg \in Questions :
          RequestsServed /\ Arrived(t) /\ SendFind(t, u, oid, msg)
    \/ \E t \in TurnIds : SendSaveUser(t)
    \/ \E t \in TurnIds : SendCount(t)
    \/ \E t \in TurnIds : SendTitle(t)
    \/ \E t \in TurnIds : SendHistory(t)
    \/ \E t \in TurnIds, ok \in BOOLEAN : SendContext(t, ok)
    \/ \E t \in TurnIds : \E content \in Fragments(turn[t].sent) : StreamChunk(t, content)
    \/ \E t \in TurnIds : StreamRaise(t)
    \/ \E t \in TurnIds : StreamEnd(t)
    \/ \E t \in TurnIds : SendTouch(t)
    \/ \E x \in DeleterIds, u \in Users, oid \in SessionIds : RequestsServed /\ DeleteFind(x, u, oid)
    \/ \E x \in DeleterIds : DeleteMessages(x)
    \/ \E x \in DeleterIds : DeleteSession(x)

Next == StartupNext \/ ChatNext

Spec == Init /\ [][Next]_vars

\* upload slots are taken in the order the requests arrive
UploadArrived(p) == p = "p2" => upload["p1"].pc # "idle"

DocsNext ==
    \/ \E p \in UploadIds, u \in Users, f \in Filenames, b \in Contents :
          UploadArrived(p) /\ UploadStart(p, u, f, b)
    \/ \E p \in UploadIds, failure \in UploadFailures : UploadCheck(p, failure)
    \/ \E p \in UploadIds, ok \in BOOLEAN : UploadInsert(p, ok)
    \/ \E r \in RemoverIds, u \in Users, d \in DocIds : RemoveFind(r, u, d)
    \/ \E r \in RemoverIds, ok \in BOOLEAN : RemoveRow(r, ok)

NextDocs == StartupNext \/ DocsNext

\* The document registry: startup embedding, concurrent uploads, deletes.
SpecDocs == Init /\ [][NextDocs]_vars

ScopeNext ==
    \/ \E u \in Users, f \in Filenames, b \in Contents : UploadStart("p1", u, f, b)
    \/ \E failure \in UploadFailures : UploadCheck("p1", failure)
    \/ \E ok \in BOOLEAN : UploadInsert("p1", ok)
    \/ \E u \in Users, d \in DocIds : unlink_common_resource(u, d)
    \/ \E u \in Users : RequestsServed /\ create_session(u, "knowledge")
    \/ \E u \in Users, oid \in SessionIds, ids \in SelectChoices :
          update_session_documents(u, oid, ids)

NextScope == StartupNext \/ ScopeNext

\* Retrieval scoping: documents, hides, a session's selection, retrieval.
SpecScope == Init /\ [][NextScope]_vars

\* One request slot that serves turn after turn on sessions whose log grows
\* long, with a memory curation under way; retrieval and generation succeed
\* and the model streams its whole answer.
HistoryNext ==
    \/ \E u \in Users, type \in Modes : RequestsServed /\ create_session(u, type)
    \/ \E u \in Users, oid \in SessionIds, msg \in Questions :
          RequestsServed /\ next_message + 2 <= MaxMessages /\ SendFind("t1", u, oid, msg)
    \/ SendSaveUser("t1")
    \/ SendCount("t1")
    \/ SendTitle("t1")
    \/ SendHistory("t1")
    \/ SendContext("t1", TRUE)
    \/ \E content \in Fragments(turn["t1"].sent) \ {<<>>} : StreamChunk("t1", content)
    \/ Len(turn["t1"].sent) = MaxChunks /\ StreamEnd("t1")
    \/ SendTouch("t1")
    \/ NextRequest("t1")
    \/ \E u \in Users, oid \in SessionIds, ids \in MemoryChoices :
          RequestsServed /\ MemoryFind("c1", u, oid, ids)
    \/ MemoryFetch("c1")
    \/ MemoryUpdate("c1")

NextHistory == StartupNext \/ HistoryNext

SpecHistory == Init /\ [][NextHistory]_vars

\* Every session route, handlers interleaving at their awaits: one request
\* slot of send_message that serves turn after turn, a memory curation, a
\* delete, renames and document selections.  The sessions are analyst
\* sessions, the network summary and the generation succeed and the model
\* streams its whole answer.
SessionNext ==
    \/ \E u \in Users : RequestsServed /\ create_session(u, "analyst")
    \/ \E u \in Users, oid \in SessionIds, msg \in Questions :
          RequestsServed /\ next_message + 2 <= MaxShortLog /\ SendFind("t1", u, oid, msg)
    \/ SendSaveUser("t1")
    \/ SendCount("t1")
    \/ SendTitle("t1")
    \/ SendHistory("t1")
    \/ SendContext("t1", TRUE)
    \/ \E content \in Fragments(turn["t1"].sent) \ {<<>>} : StreamChunk("t1", content)
    \/ Len(turn["t1"].sent) = MaxChunks /\ StreamEnd("t1")
    \/ SendTouch("t1")
    \/ NextRequest("t1")
    \/ \E u \in Users, oid \in SessionIds, ids \in {{}, {<<"str", 2>>}} :
          RequestsServed /\ MemoryFind("c1", u, oid, ids)
    \/ MemoryFetch("c1")
    \/ MemoryUpdate("c1")
    \/ \E x \in DeleterIds, u \in Users, oid \in SessionIds : RequestsServed /\ DeleteFind(x, u, oid)
    \/ \E x \in DeleterIds : DeleteMessages(x)
    \/ \E x \in DeleterIds : DeleteSession(x)
    \/ \E u \in Users, oid \in SessionIds, title \in Titles :
          RequestsServed /\ rename_session(u, oid, title)
    \/ \E u \in Users, oid \in SessionIds, ids \in {{<<"str", 1>>}} :
          RequestsServed /\ update_session_documents(u, oid, ids)

NextSession == StartupNext \/ SessionNext

SpecSession == Init /\ [][NextSession]_vars

\* no handler is between two of its awaits
NoneInFlight ==
    /\ turn["t1"].pc \in {"idle"} \cup TurnOver
    /\ \A c \in CuratorIds : curator[c].pc \in {"idle", "notfound", "done"}
    /\ \A x \in DeleterIds : deleter[x].pc \in {"idle", "notfound", "done"}

\* Turns, memory curation and delete called one after the other: a request
\* starts when no handler is under way.  A turn ends at a failed retrieval or
\* with the model's whole answer.
SerialNext ==
    \/ \E u \in Users, type \in Modes : RequestsServed /\ NoneInFlight /\ create_session(u, type)
    \/ \E u \in Users, oid \in SessionIds, msg \in Questions :
          /\ RequestsServed /\ NoneInFlight /\ next_message + 2 <= MaxShortLog
          /\ SendFind("t1", u, oid, msg)
    \/ SendSaveUser("t1")
    \/ SendCount("t1")
    \/ SendTitle("t1")
    \/ SendHistory("t1")
    \/ \E ok \in BOOLEAN : SendContext("t1", ok)
    \/ \E content \in Fragments(turn["t1"].sent) \ {<<>>} : StreamChunk("t1", content)
    \/ Len(turn["t1"].sent) = MaxChunks /\ StreamEnd("t1")
    \/ SendTouch("t1")
    \/ NextRequest("t1")
    \/ \E u \in Users, oid \in SessionIds, ids \in MemoryChoices :
          RequestsServed /\ NoneInFlight /\ MemoryFind("c1", u, oid, ids)
    \/ MemoryFetch("c1")
    \/ MemoryUpdate("c1")
    \/ \E x \in DeleterIds, u \in Users, oid \in SessionIds :
          RequestsServed /\ NoneInFlight /\ DeleteFind(x, u, oid)
    \/ \E x \in DeleterIds : DeleteMessages(x)
    \/ \E x \in DeleterIds : DeleteSession(x)

NextSerial == StartupNext \/ SerialNext

SpecSerial == Init /\ [][NextSerial]_vars

\* Turns and renames called one after the other on sessions of either mode:
\* a turn ends at a failed retrieval or with the model's whole answer.
TitleNext ==
    \/ \E u \in Users, type \in Modes : RequestsServed /\ NoneInFlight /\ create_session(u, type)
    \/ \E u \in Users, oid \in SessionIds, msg \in Questions :
          /\ RequestsServed /\ NoneInFlight /\ next_message + 2 <= MaxShortLog
          /\ SendFind("t1", u, oid, msg)
    \/ SendSaveUser("t1")
    \/ SendCount("t1")
    \/ SendTitle("t1")
    \/ SendHistory("t1")
    \/ \E ok \in BOOLEAN : SendContext("t1", ok)
    \/ \E content \in Fragments(turn["t1"].sent) \ {<<>>} : StreamChunk("t1", content)
    \/ Len(turn["t1"].sent) = MaxChunks /\ StreamEnd("t1")
    \/ SendTouch("t1")
    \/ NextRequest("t1")
    \/ \E u \in Users, oid \in SessionIds, title \in Titles :
          RequestsServed /\ NoneInFlight /\ rename_session(u, oid, title)

NextTitle == StartupNext \/ TitleNext

SpecTitle == Init /\ [][NextTitle]_vars

\* the turn is between the start and the end of its stream
Streaming(t) == turn[t].pc = "streaming"

\* A knowledge turn with the session's selection and the registry changing
\* under it: retrieval and generation succeed, the model streams its whole
\* answer, and while it streams its caller selects, uploads, deletes and
\* hides documents.
SourcesNext ==
    \/ \E u \in Users : RequestsServed /\ create_session(u, "knowledge")
    \/ \E u \in Users, oid \in SessionIds, msg \in Questions :
          RequestsServed /\ SendFind("t1", u, oid, msg)
    \/ SendSaveUser("t1")
    \/ SendCount("t1")
    \/ SendTitle("t1")
    \/ SendHistory("t1")
    \/ SendContext("t1", TRUE)
    \/ \E content \in Fragments(turn["t1"].sent) \ {<<>>} : StreamChunk("t1", content)
    \/ Len(turn["t1"].sent) = MaxChunks /\ StreamEnd("t1")
    \/ SendTouch("t1")
    \/ \E ids \in SelectChoices :
          Streaming("t1") /\ update_session_documents(turn["t1"].user_id, turn["t1"].sid, ids)
    \/ Streaming("t1") /\ UploadStart("p1", turn["t1"].user_id, <<"a", ".txt">>, "B1")
    \/ UploadCheck("p1", "none")
    \/ UploadInsert("p1", TRUE)
    \/ \E d \in DocIds : Streaming("t1") /\ RemoveFind("r1", turn["t1"].user_id, d)
    \/ RemoveRow("r1", TRUE)
    \/ \E d \in DocIds : Streaming("t1") /\ unlink_common_resource(turn["t1"].user_id, d)

NextSources == StartupNext \/ SourcesNext

SpecSources == Init /\ [][NextSources]_vars

\* curator slots are taken in the order the requests arrive
CuratorArrived(c) == c = "c2" => curator["c1"].pc # "idle"

NoCuratorInFlight == \A c \in CuratorIds : curator[c].pc \in {"idle", "notfound", "done"}

\* Two memory curations at the same time, on sessions whose messages come
\* from turns that run while no curation is under way; the network summary and
\* the generation succeed and the model streams its whole answer.
MemoryNext ==
    \/ \E u \in Users : RequestsServed /\ create_session(u, "analyst")
    \/ \E u \in Users, oid \in SessionIds, msg \in Questions :
          /\ RequestsServed /\ NoCuratorInFlight /\ next_message + 2 <= MaxShortLog
          /\ SendFind("t1", u, oid, msg)
    \/ SendSaveUser("t1")
    \/ SendCount("t1")
    \/ SendTitle("t1")
    \/ SendHistory("t1")
    \/ SendContext("t1", TRUE)
    \/ \E content \in Fragments(turn["t1"].sent) \ {<<>>} : StreamChunk("t1", content)
    \/ Len(turn["t1"].sent) = MaxChunks /\ StreamEnd("t1")
    \/ SendTouch("t1")
    \/ NextRequest("t1")
    \/ \E c \in CuratorIds, u \in Users, oid \in SessionIds, ids \in MemoryChoices :
          /\ RequestsServed /\ CuratorArrived(c) /\ turn["t1"].pc \in {"idle"} \cup TurnOver
          /\ MemoryFind(c, u, oid, ids)
    \/ \E c \in CuratorIds : MemoryFetch(c)
    \/ \E c \in CuratorIds : MemoryUpdate(c)

NextMemory == StartupNext \/ MemoryNext

SpecMemory == Init /\ [][NextMemory]_vars

\* The response stream: turns whose stream ends, breaks or loses its caller.
StreamNext ==
    \/ \E u \in Users, type \in Modes : RequestsServed /\ create_session(u, type)
    \/ \E t \in TurnIds, u \in Users, oid \in SessionIds, msg \in Questions :
          RequestsServed /\ Arrived(t) /\ SendFind(t, u, oid, msg)
    \/ \E t \in TurnIds : SendSaveUser(t)
    \/ \E t \in TurnIds : SendCount(t)
    \/ \E t \in TurnIds : SendTitle(t)
    \/ \E t \in TurnIds : SendHistory(t)
    \/ \E t \in TurnIds, ok \in BOOLEAN : SendContext(t, ok)
    \/ \E t \in TurnIds : \E content \in Fragments(turn[t].sent) : StreamChunk(t, content)
    \/ \E t \in TurnIds : StreamRaise(t)
    \/ \E t \in TurnIds : StreamDisconnect(t)
    \/ \E t \in TurnIds : StreamEnd(t)
    \/ \E t \in TurnIds : SendTouch(t)

NextStream == StartupNext \/ StreamNext

\* what the event loop runs once it is ready: the next step of a handler
\* after its await has completed, and the end of a stream, one way or another
TurnStep(t) ==
    \/ SendSaveUser(t)
    \/ SendCount(t)
    \/ SendTitle(t)
    \/ SendHistory(t)
    \/ \E ok \in BOOLEAN : SendContext(t, ok)
    \/ StreamRaise(t)
    \/ StreamDisconnect(t)
    \/ StreamEnd(t)
    \/ SendTouch(t)

SpecStream ==
    /\ Init
    /\ [][NextStream]_vars
    /\ WF_vars(StartupNext)
    /\ \A t \in TurnIds : WF_vars(TurnStep(t))

\* The document registry called by one request after the other: uploads,
\* deletes and hides of any identity, each alone from its start to its end,
\* with extraction, embedding and the database at work.
RegistryNext ==
    \/ \E u \in Users, f \in Filenames, b \in Contents :
          RegistryIdle /\ UploadStart("p1", u, f, b)
    \/ UploadCheck("p1", "none")
    \/ UploadInsert("p1", TRUE)
    \/ NextUpload("p1")
    \/ \E u \in Users, d \in DocIds : RegistryIdle /\ RemoveFind("r1", u, d)
    \/ RemoveRow("r1", TRUE)
    \/ NextRemoval("r1")
    \/ \E u \in Users, d \in DocIds : RegistryIdle /\ unlink_common_resource(u, d)

NextRegistry == StartupNext \/ RegistryNext

SpecRegistry == Init /\ [][NextRegistry]_vars

\* The process started again and again: the embedder walks the shared
\* directory at every start, fails at its insert or returns, and between two
\* starts one user uploads and deletes, one request after the other.
RestartNext ==
    \/ StartupRaise
    \/ StartupAgain
    \/ \E f \in Filenames, b \in Contents : RegistryIdle /\ UploadStart("p1", "u1", f, b)
    \/ UploadCheck("p1", "none")
    \/ UploadInsert("p1", TRUE)
    \/ NextUpload("p1")
    \/ \E d \in DocIds : RegistryIdle /\ RemoveFind("r1", "u1", d)
    \/ RemoveRow("r1", TRUE)
    \/ NextRemoval("r1")

NextRestart == StartupNext \/ RestartNext

SpecRestart == Init /\ [][NextRestart]_vars

\* ---------------------------------------------------------------------- claims
UserRowOf(log, t) == {i \in DOMAIN log : log[i].turn = t /\ log[i].role = "user"}
AssistantRowOf(log, t) == {i \in DOMAIN log : log[i].turn = t /\ log[i].role = "assistant"}
MessagesDeleted(oid) ==
    \E x \in DeleterIds : deleter[x].sid = oid /\ deleter[x].pc \in {"emptied", "done"}

\* C1: in every reachable state, under any interleaving of create_session,
\* send_message (with its deferred assistant write) and delete_session, the
\* session_id of every stored message names a session that exists.
C1_EveryMessageHasSession ==
    \A i \in DOMAIN chat_messages :
        ObjectId(chat_messages[i].session_id) \in DOMAIN chat_sessions

\* C2: when llm.stream raises before any fragment was forwarded, the step
\* leaves sessions and messages as they are: the log holds the turn's user
\* message (unless a delete_session has removed the session's messages) and no
\* assistant message of the turn; the turn is over; and no step of a turn other
\* than its last, successful one changes a session's updated_at.
C2_FailedGenerationKeepsUserMessage ==
    [][\A t \in TurnIds :
          /\ (turn[t].pc = "streaming" /\ turn[t].sent = <<>> /\ turn'[t].pc = "failed") =>
                /\ chat_sessions' = chat_sessions
                /\ AssistantRowOf(chat_messages', t) = {}
                /\ \/ MessagesDeleted(turn[t].sid)
                   \/ \E i \in UserRowOf(chat_messages', t) :
                         /\ chat_messages'[i].content = turn[t].message
                         /\ chat_messages'[i].session_id = Str(turn[t].sid)
          /\ turn[t].pc = "failed" => turn'[t] = turn[t]
          /\ (turn'[t] # turn[t] /\ turn'[t].pc # "done") =>
                \A oid \in DOMAIN chat_sessions \cap DOMAIN chat_sessions' :
                    chat_sessions'[oid].updated_at = chat_sessions[oid].updated_at
      ]_vars

C2_Witness ==
    \E t \in TurnIds :
        /\ turn[t].pc = "failed"
        /\ turn[t].sent = <<>>
        /\ UserRowOf(chat_messages, t) # {}
        /\ AssistantRowOf(chat_messages, t) = {}

\* C3: the step at which the stream ends appends exactly one row, the turn's
\* only assistant message; its content is the concatenation, in order, of the
\* fragments forwarded to the caller; in knowledge mode its sources are the
\* passages retrieved for the turn, which are what retrieve_docs_for_user
\* returned when the context was built.
C3_StreamCompletion ==
    [][\A t \in TurnIds :
          /\ (turn[t].pc = "streaming" /\ turn'[t].pc = "appended") =>
                LET new == chat_messages'[Len(chat_messages')]
                IN /\ chat_messages' = Append(chat_messages, new)
                   /\ AssistantRowOf(chat_messages, t) = {}
                   /\ new.role = "assistant" /\ new.turn = t
                   /\ new.session_id = Str(turn[t].sid)
                   /\ new.content = Flatten(turn[t].sent)
                   /\ turn[t].mode = "knowledge" => new.sources = turn[t].docs
                   /\ turn[t].mode # "knowledge" => new.sources = <<>>
          /\ (turn[t].pc = "history" /\ turn'[t].pc = "streaming" /\ turn[t].mode = "knowledge") =>
                turn'[t].docs = retrieve_docs_for_user(turn[t].user_id, turn[t].sid, TopK)
          /\ (turn[t].pc = "streaming" /\ turn'[t].pc = "streaming") =>
                turn'[t].docs = turn[t].docs
      ]_vars

C3_Witness ==
    \E t \in TurnIds :
        /\ turn[t].pc = "appended"
        /\ turn[t].mode = "knowledge"
        /\ Len(turn[t].sent) = 2
        /\ turn[t].docs # <<>>
        /\ \E i \in AssistantRowOf(chat_messages, t) :
              /\ chat_messages[i].content = <<"a", "b">>
              /\ chat_messages[i].sources = turn[t].docs

\* C4: in a knowledge-mode turn, whatever retrieve_docs_for_user does (return
\* or raise), the step that builds the context does not abort the turn: the
\* turn goes on to stream, with the passages or the warning in its context.
C4_RetrievalFailureDoesNotAbort ==
    [][\A t \in TurnIds :
          (turn[t].pc = "history" /\ turn[t].mode = "knowledge" /\ turn'[t] # turn[t]) =>
              /\ turn'[t].pc = "streaming"
              /\ turn'[t].extra_context # <<>>
      ]_vars

Hidden(u, doc_id) ==
    \E i \in DOMAIN hidden_docs :
        hidden_docs[i].user_id = u /\ hidden_docs[i].doc_id = doc_id

\* the documents whose chunks a retrieval for the session's owner returns
RetrievedDocIds(oid) ==
    {hit.doc_id : hit \in Range(retrieve_docs_for_user(chat_sessions[oid].user_id, oid, TopK))}

\* the owner's private documents and the shared documents the owner has not hidden
VisibleDocIds(u) ==
    {Str(d) : d \in {x \in DOMAIN documents :
        \/ documents[x].doc_type = "user" /\ documents[x].owner_user_id = u
        \/ documents[x].doc_type = "common" /\ ~Hidden(u, Str(x))}}

RegistryConsistent ==
    /\ \A e \in collection : ObjectId(e.doc_id) \in DOMAIN documents
    /\ \A d \in DOMAIN documents : \E e \in collection : e.doc_id = Str(d)

\* C5: whenever every indexed document has its metadata row, a retrieval for
\* a session with no selected documents returns chunks of exactly the owner's
\* private documents and the shared documents the owner has not hidden; so no
\* chunk of a shared document the owner has hidden.
C5_DefaultScopeIsVisibleDocuments ==
    RegistryConsistent =>
        \A oid \in DOMAIN chat_sessions :
            chat_sessions[oid].selected_docs = {} =>
                RetrievedDocIds(oid) = VisibleDocIds(chat_sessions[oid].user_id)

\* C6: a retrieval for a session never returns a chunk of a document that is
\* private to an identity other than the session's owner, whatever the
\* session's selected_docs are.
C6_NoForeignPrivateChunk ==
    \A oid \in DOMAIN chat_sessions : \A d \in DOMAIN documents :
        (documents[d].doc_type = "user"
            /\ documents[d].owner_user_id # chat_sessions[oid].user_id)
        => Str(d) \notin RetrievedDocIds(oid)

\* C7: no two metadata rows with the same owner, and no two shared rows, have
\* the same content hash.
C7_UniqueHashPerOwner ==
    \A d1 \in DOMAIN documents : \A d2 \in DOMAIN documents :
        (d1 # d2 /\ documents[d1].file_hash = documents[d2].file_hash) =>
            /\ documents[d1].owner_user_id # documents[d2].owner_user_id
            /\ ~(documents[d1].doc_type = "common" /\ documents[d2].doc_type = "common")

OwnsHash(u, h) ==
    \E d \in DOMAIN documents :
        /\ documents[d].doc_type = "user"
        /\ documents[d].owner_user_id = u
        /\ documents[d].file_hash = h

SharedHash(h) ==
    \E d \in DOMAIN documents :
        documents[d].doc_type = "common" /\ documents[d].file_hash = h

\* the step of upload p that follows its duplicate test
Checked(p) == upload[p].pc = "saved" /\ upload'[p] # upload[p]

C9_SharedDuplicateRejected ==
    [][\A p \in UploadIds :
          (Checked(p) /\ SharedHash(upload[p].file_hash)) =>
              upload'[p].status = "DuplicateContent"
      ]_vars

\* C9 as amended: an upload ends with DuplicateContent only when the uploader
\* owns a document with the same hash; a shared document with that hash does
\* not stand in the way, and a private row with the hash of a shared row can
\* only come from an upload that the duplicate test let pass.
C9_OnlyOwnDuplicateRejected ==
    [][\A p \in UploadIds :
          Checked(p) =>
              /\ upload'[p].status = "DuplicateContent" =>
                    OwnsHash(upload[p].user_id, upload[p].file_hash)
              /\ (~OwnsHash(upload[p].user_id, upload[p].file_hash)
                    /\ upload'[p].pc = "done") => upload'[p].status = "error"
      ]_vars

C9_Witness ==
    \E d1 \in DOMAIN documents : \E d2 \in DOMAIN documents :
        /\ documents[d1].doc_type = "common"
        /\ documents[d2].doc_type = "user"
        /\ documents[d1].file_hash = documents[d2].file_hash

Quiescent ==
    /\ startup.pc = "done"
    /\ \A p \in UploadIds : upload[p].pc \in {"idle", "done"}
    /\ \A r \in RemoverIds : remover[r].pc \in {"idle", "done"}

\* C10: whenever no upload and no delete is under way (each has returned or
\* failed), a document's metadata row exists if and only if index entries
\* with its id exist.
C10_RowIffIndexEntries ==
    Quiescent =>
        \A n \in 1..MaxDocs :
            (NewObjectId(n) \in DOMAIN documents)
                <=> (\E e \in collection : e.doc_id = Str(NewObjectId(n)))

\* the step at which upload p ends rejected
Rejected(p) ==
    /\ upload[p].pc # "done"
    /\ upload'[p].pc = "done"
    /\ upload'[p].status \in {"InvalidInput", "DuplicateContent"}

\* the stored file of every registered document is in place, bytes unchanged
StoredBytesKept ==
    \A d \in DOMAIN documents :
        documents[d].path \in DOMAIN files =>
            /\ documents[d].path \in DOMAIN files'
            /\ files'[documents[d].path] = files[documents[d].path]

\* C11: the step at which an upload is rejected (unsupported extension,
\* oversize or duplicate content) changes no metadata row and no index entry
\* and leaves the stored bytes of every registered document as they were, also
\* when the upload has the filename of an existing document of the uploader.
C11_RejectedUploadHasNoSideEffect ==
    [][\A p \in UploadIds :
          Rejected(p) => /\ documents' = documents
                         /\ collection' = collection
                         /\ StoredBytesKept
      ]_vars

\* the step at which turn t reads its history block
ReadsHistory(t) == turn[t].pc = "titled" /\ turn'[t].pc = "history"

\* the user message turn t has inserted
OwnMessage(t) ==
    LET own == {m \in Range(chat_messages) : m.turn = t /\ m.role = "user"}
    IN CHOOSE m \in own : \A o \in own : o.id[2] <= m.id[2]

\* the included messages of the turn's session other than its own user message
Prior(t) ==
    {m \in Range(SessionMessages(Str(turn[t].sid))) :
        m.included_in_context /\ m.id[2] < OwnMessage(t).id[2]}

MostRecent(S, n) == {m \in S : Cardinality({o \in S : o.id[2] > m.id[2]}) < n}

\* at most 12 messages, all of the session and included, oldest first, and
\* what the turn keeps is their "<Role>: <content>" lines
HistoryWellFormed(t, H) ==
    /\ turn'[t].history = [i \in DOMAIN H |-> <<H[i].role, H[i].content>>]
    /\ Len(H) <= 12
    /\ \A i \in DOMAIN H : /\ H[i].included_in_context
                           /\ H[i].session_id = Str(turn[t].sid)
    /\ \A i \in DOMAIN H : \A j \in DOMAIN H : i < j => H[i].id[2] < H[j].id[2]

\* C12 as claimed: the history block holds at most 12 messages, all included,
\* in ascending order; with 20 prior included messages it is exactly the 12
\* most recent of those prior messages.
C12_HistoryIsLast12Prior ==
    [][\A t \in TurnIds :
          ReadsHistory(t) =>
              LET H == History(Str(turn[t].sid))
              IN /\ HistoryWellFormed(t, H)
                 /\ Cardinality(Prior(t)) = 20 => Range(H) = MostRecent(Prior(t), 12)
      ]_vars

\* C12 as amended: the history block is the 12 most recent included messages
\* of the session at the read, oldest first, and the turn's own user message,
\* inserted before the read, is one of the session's messages: with 20 prior
\* included messages and the own message still included, the block is the 11
\* most recent prior messages followed by the turn's own user message.
C12_HistoryIsLast12OfSession ==
    [][\A t \in TurnIds :
          ReadsHistory(t) =>
              LET H == History(Str(turn[t].sid))
                  included == {m \in Range(SessionMessages(Str(turn[t].sid))) :
                                  m.included_in_context}
              IN /\ HistoryWellFormed(t, H)
                 /\ Range(H) = MostRecent(included, 12)
                 /\ (Cardinality(Prior(t)) = 20 /\ OwnMessage(t) \in included) =>
                       /\ Range(H) = MostRecent(Prior(t), 11) \cup {OwnMessage(t)}
                       /\ H[12] = OwnMessage(t)
      ]_vars

C12_Witness ==
    /\ turn["t1"].pc = "history"
    /\ Len(turn["t1"].history) = 12
    /\ Cardinality(Prior("t1")) = 20
    /\ OwnMessage("t1").included_in_context
    /\ turn["t1"].history[12] = <<"user", OwnMessage("t1").content>>

MessagesIn(log, session_id) == SelectSeq(log, LAMBDA m : m.session_id = session_id)

\* a log with the flags set aside: ids, contents and positions
Unflagged(log) == [i \in DOMAIN log |-> [log[i] EXCEPT !.included_in_context = TRUE]]

\* the step at which update_memory c returns
Curated(c) == curator[c].pc \in {"found", "loop"} /\ curator'[c].pc = "done"

\* C13: when update_memory returns after a call during which no other handler
\* ran, every message of the session has included_in_context = (its id is in
\* included_message_ids): omitted messages are excluded, ids of no message of
\* the session change nothing, and nothing but flags of the session changed.
C13_MemoryCurationIsFullReplace ==
    [][\A c \in CuratorIds :
          Curated(c) =>
              /\ \A m \in Range(MessagesIn(chat_messages', Str(curator[c].sid))) :
                    m.included_in_context <=> (Str(m.id) \in curator[c].include_set)
              /\ Unflagged(chat_messages') = Unflagged(chat_messages)
              /\ \A i \in DOMAIN chat_messages :
                    chat_messages[i].session_id # Str(curator[c].sid) =>
                        chat_messages'[i] = chat_messages[i]
              /\ chat_sessions' = chat_sessions
      ]_vars

C13_Witness ==
    /\ curator["c1"].pc = "done"
    /\ Len(chat_messages) >= 3
    /\ ~chat_messages[1].included_in_context
    /\ chat_messages[2].included_in_context
    /\ ~chat_messages[3].included_in_context
    /\ chat_messages[1].session_id = chat_messages[3].session_id

\* the session rows as get_session_messages shows them to the owner: every
\* row, in its place, with its content
ShownAsStored(oid) ==
    LET rows == SessionMessages(Str(oid))
        shown == get_session_messages(chat_sessions[oid].user_id, oid)
    IN /\ shown.status = 200
       /\ Len(shown.body) = Len(rows)
       /\ \A i \in DOMAIN rows : /\ shown.body[i].id = Str(rows[i].id)
                                 /\ shown.body[i].content = rows[i].content
                                 /\ shown.body[i].role = rows[i].role

\* C14: a message is created with included_in_context = true; a step that
\* changes the flag of a message is a step of update_memory, and it changes
\* no content and no position; the history a turn reads holds no message whose
\* flag is false; get_session_messages shows every message of the session,
\* whatever its flag, in its place.
C14_FlagOnlyAffectsContext ==
    [][/\ \A j \in DOMAIN chat_messages' :
             chat_messages'[j].id[2] > next_message => chat_messages'[j].included_in_context
       /\ \A i \in DOMAIN chat_messages : \A j \in DOMAIN chat_messages' :
             (/\ chat_messages[i].id = chat_messages'[j].id
              /\ chat_messages[i].included_in_context # chat_messages'[j].included_in_context)
             => /\ \E c \in CuratorIds : curator[c].pc = "loop" /\ curator'[c] # curator[c]
                /\ Unflagged(chat_messages') = Unflagged(chat_messages)
       /\ \A t \in TurnIds :
             ReadsHistory(t) =>
                 LET H == History(Str(turn[t].sid))
                     included == {m \in Range(SessionMessages(Str(turn[t].sid))) :
                                     m.included_in_context}
                 IN /\ HistoryWellFormed(t, H)
                    /\ Range(H) \subseteq included
                    /\ Len(turn'[t].history) <= Cardinality(included)
       /\ \A oid \in DOMAIN chat_sessions : ShownAsStored(oid)
      ]_vars

C14_Witness ==
    /\ turn["t1"].pc = "history"
    /\ turn["t1"].sid \in DOMAIN chat_sessions
    /\ \E m \in Range(SessionMessages(Str(turn["t1"].sid))) :
          /\ ~m.included_in_context
          /\ \E i \in DOMAIN get_session_messages(turn["t1"].user_id, turn["t1"].sid).body :
                get_session_messages(turn["t1"].user_id, turn["t1"].sid).body[i].id = Str(m.id)
    /\ Len(turn["t1"].history) = 1
    /\ Len(SessionMessages(Str(turn["t1"].sid))) = 3

\* a session of another identity, and an id of no session
Foreign(u, oid) == oid \in DOMAIN chat_sessions /\ chat_sessions[oid].user_id # u
Missing(oid) == oid \notin DOMAIN chat_sessions
ProbedIds == SessionIds \cup {NewObjectId(0)}

\* C15: for every session route, the call of an identity on a session of
\* another identity has the outcomes of the same call on an id of no session,
\* it ends in "Session not found", and it changes no session and no message.
C15_ForeignIsNotFound ==
    [][\A u \in Users : \A oid1 \in ProbedIds : \A oid2 \in ProbedIds :
          (Foreign(u, oid1) /\ Missing(oid2)) =>
              /\ get_session_messages(u, oid1) = get_session_messages(u, oid2)
              /\ get_session_messages(u, oid1).status = 404
              /\ \A t \in TurnIds : \A msg \in Questions :
                    /\ SendFind(t, u, oid1, msg) <=> SendFind(t, u, oid2, msg)
                    /\ SendFind(t, u, oid1, msg) => turn'[t].pc = "notfound"
              /\ \A c \in CuratorIds : \A ids \in MemoryChoices :
                    /\ MemoryFind(c, u, oid1, ids) <=> MemoryFind(c, u, oid2, ids)
                    /\ MemoryFind(c, u, oid1, ids) => curator'[c].pc = "notfound"
              /\ \A x \in DeleterIds :
                    /\ DeleteFind(x, u, oid1) <=> DeleteFind(x, u, oid2)
                    /\ DeleteFind(x, u, oid1) => deleter'[x].pc = "notfound"
              /\ \A title \in Titles :
                    /\ rename_session(u, oid1, title) <=> rename_session(u, oid2, title)
                    /\ rename_session(u, oid1, title) => reply'.status = 404
              /\ \A ids \in SelectChoices :
                    /\ update_session_documents(u, oid1, ids)
                          <=> update_session_documents(u, oid2, ids)
                    /\ update_session_documents(u, oid1, ids) => reply'.status = 404
              /\ (\/ \E t \in TurnIds, msg \in Questions : SendFind(t, u, oid1, msg)
                  \/ \E c \in CuratorIds, ids \in MemoryChoices : MemoryFind(c, u, oid1, ids)
                  \/ \E x \in DeleterIds : DeleteFind(x, u, oid1)
                  \/ \E title \in Titles : rename_session(u, oid1, title)
                  \/ \E ids \in SelectChoices : update_session_documents(u, oid1, ids))
                 => chat_sessions' = chat_sessions /\ chat_messages' = chat_messages
      ]_vars

\* the slot has served a turn of the session and then a call that was refused,
\* while the session exists: the refused call came from another identity
C15_Witness ==
    /\ turn["t1"].pc = "notfound"
    /\ DOMAIN chat_sessions # {}
    /\ \E m \in Range(chat_messages) : m.turn = "t1"
    /\ \A x \in DeleterIds : deleter[x].pc = "idle"
    /\ reply.status = 404

\* C16: once delete_session has returned, with no turn under way during the
\* call, no message with the session's id is stored and get_session_messages
\* on that id is refused with "Session not found" for every identity.
C16_DeletedSessionIsGone ==
    \A x \in DeleterIds :
        deleter[x].pc = "done" =>
            /\ \A m \in Range(chat_messages) : m.session_id # Str(deleter[x].sid)
            /\ deleter[x].sid \notin DOMAIN chat_sessions
            /\ \A u \in Users : get_session_messages(u, deleter[x].sid).status = 404

C16_Witness ==
    /\ deleter["x1"].pc = "done"
    /\ next_message >= 2
    /\ chat_messages = <<>>
    /\ turn["t1"].pc = "notfound"

\* C17: once the caller of a streaming turn has disconnected, an assistant
\* message holding the fragments buffered so far is eventually appended to
\* the session.
C17_DisconnectStillCommits ==
    \A t \in TurnIds :
        (turn[t].pc = "cancelled") ~>
            (\E i \in AssistantRowOf(chat_messages, t) :
                chat_messages[i].content = Flatten(turn[t].sent))

\* C18: the step at which the stream raises after a fragment was forwarded
\* retracts no forwarded fragment and appends an assistant message that holds
\* what was buffered.
C18_MidStreamFailurePersistsPartial ==
    [][\A t \in TurnIds :
          (turn[t].pc = "streaming" /\ turn[t].sent # <<>> /\ turn'[t].pc = "failed") =>
              /\ turn'[t].sent = turn[t].sent
              /\ \E i \in AssistantRowOf(chat_messages', t) :
                    chat_messages'[i].content = Flatten(turn[t].sent)
      ]_vars

\* C19: a turn whose generation raised before any fragment is Failed and its
\* caller has an error response, not the 200 of a stream.
C19_EarlyFailureIsSignalled ==
    \A t \in TurnIds :
        (turn[t].pc = "failed" /\ turn[t].sent = <<>>) => ResponseStatus(t) = 500

\* C20: there is at most one Hide record for an identity and a document,
\* however often the identity has hidden the document, and every Hide record
\* names a shared document.
C20_HideIsIdempotent ==
    /\ \A i \in DOMAIN hidden_docs : \A j \in DOMAIN hidden_docs :
          (hidden_docs[i].user_id = hidden_docs[j].user_id
              /\ hidden_docs[i].doc_id = hidden_docs[j].doc_id) => i = j
    /\ \A i \in DOMAIN hidden_docs :
          /\ ObjectId(hidden_docs[i].doc_id) \in DOMAIN documents
          /\ documents[ObjectId(hidden_docs[i].doc_id)].doc_type = "common"

\* the index entries of a document
EntriesOf(doc_id) == {e \in collection : e.doc_id = Str(doc_id)}

Untouched == documents' = documents /\ collection' = collection /\ files' = files

\* C21: delete_resource on a shared document ends with Immutable and on a
\* private document of another identity with NotOwner, and either way it
\* leaves metadata rows, index entries and files as they were; no step of a
\* delete_resource removes the row, an index entry or the file of a shared
\* document.
C21_RefusedDeleteChangesNothing ==
    [][/\ \A r \in RemoverIds : \A u \in Users : \A d \in DocIds :
             (RemoveFind(r, u, d) /\ ObjectId(d) \in DOMAIN documents) =>
                 /\ documents[ObjectId(d)].doc_type = "common" =>
                        remover'[r].status = "Immutable" /\ Untouched
                 /\ (documents[ObjectId(d)].doc_type = "user"
                        /\ documents[ObjectId(d)].owner_user_id # u) =>
                        remover'[r].status = "NotOwner" /\ Untouched
       /\ (\E r \in RemoverIds : remover'[r] # remover[r]) =>
             \A d \in DOMAIN documents :
                 documents[d].doc_type = "common" =>
                     /\ d \in DOMAIN documents' /\ documents'[d] = documents[d]
                     /\ EntriesOf(d) \subseteq collection'
                     /\ documents[d].path \in DOMAIN files'
                     /\ files'[documents[d].path] = files[documents[d].path]
      ]_vars

\* a delete of a private document by another identity was refused after a
\* delete of a shared document had been refused and a delete by the owner
\* had gone through
C21_Witness ==
    /\ remover["r1"].status = "NotOwner"
    /\ \E d \in DOMAIN documents : documents[d].doc_type = "common" /\ EntriesOf(d) # {}
    /\ \E d \in DOMAIN documents : documents[d].doc_type = "user" /\ documents[d].path \in DOMAIN files
    /\ NewObjectId(2) \notin DOMAIN documents
    /\ next_doc = 3

\* the ids get_resources returns
ListedIds(u) == {get_resources(u)[i].id : i \in DOMAIN get_resources(u)}

ListIsVisible ==
    \A u \in Users : /\ ListedIds(u) = VisibleDocIds(u)
                     /\ Len(get_resources(u)) = Cardinality(VisibleDocIds(u))

C27_DeleteOrder ==
    [][\A r \in RemoverIds :
          remover'[r] # remover[r] =>
              /\ \A d \in DOMAIN documents' :
                    documents'[d].path \in DOMAIN files => documents'[d].path \in DOMAIN files'
              /\ \A d \in DOMAIN documents \ DOMAIN documents' : EntriesOf(d) = {}
              /\ \A u \in Users : \A d \in DocIds :
                    (/\ RemoveFind(r, u, d)
                     /\ ObjectId(d) \in DOMAIN documents
                     /\ Refusal(documents[ObjectId(d)], u) = "none")
                    => remover'[r].pc = "unindexed"
      ]_vars

\* no upload and no delete is between two of its awaits
NoDocRequestInFlight ==
    /\ \A p \in UploadIds : upload[p].pc \in {"idle", "done"}
    /\ \A r \in RemoverIds : remover[r].pc \in {"idle", "done"}

\* C28: whenever no upload and no delete is under way, the path of every
\* registered document names a file that exists and whose hash is the
\* file_hash of the document's row.
C28_PathHoldsRegisteredBytes ==
    NoDocRequestInFlight =>
        \A d \in DOMAIN documents :
            /\ documents[d].path \in DOMAIN files
            /\ compute_file_hash(documents[d].path) = documents[d].file_hash

\* the turn's own user message is the oldest message of its session
OwnIsFirst(t) ==
    /\ SessionMessages(Str(turn[t].sid)) # <<>>
    /\ SessionMessages(Str(turn[t].sid))[1].id = OwnMessage(t).id

TitleOf(sessions, oid) == IF oid \in DOMAIN sessions THEN sessions[oid].title ELSE <<"-">>

\* C23: with turns run one at a time, a turn whose message is the first
\* message of its session has written, once past its title step, a title that
\* is a prefix of the message; a turn whose message is not the first leaves
\* the title as it was; no other step of a turn changes a title.
C23_AutoTitleOnFirstMessageOnly ==
    [][\A t \in TurnIds :
          turn'[t] # turn[t] =>
              LET sid == turn[t].sid
                  title == TitleOf(chat_sessions', sid)
              IN /\ (turn[t].pc \in {"saved", "counted"} /\ turn'[t].pc = "titled"
                        /\ OwnIsFirst(t)) =>
                        /\ title[1] = "auto"
                        /\ Len(title[2]) <= 50
                        /\ title[2] = SubSeq(turn[t].message, 1, Len(title[2]))
                        /\ title[2] # <<>>
                 /\ ~(turn[t].pc = "counted" /\ OwnIsFirst(t)) =>
                        \A oid \in DOMAIN chat_sessions :
                            TitleOf(chat_sessions', oid) = chat_sessions[oid].title
      ]_vars

\* a second turn on a session that was renamed after its first turn
C23_Witness ==
    /\ turn["t1"].pc = "done"
    /\ Len(chat_messages) = 4
    /\ \A i \in DOMAIN chat_messages : chat_messages[i].session_id = Str(NewObjectId(1))
    /\ TitleOf(chat_sessions, NewObjectId(1))[1] = "given"
    /\ chat_sessions[NewObjectId(1)].updated_at = 3

\* C30: whenever every send_message called has streamed its answer to the
\* end and committed, and no delete_session was called, a session that holds messages has an auto-derived title: of the
\* calls that sent its first messages, also of two at the same time, one has
\* written the title.
C30_ConcurrentFirstTurnsSetTitle ==
    (/\ \A t \in TurnIds : turn[t].pc \in {"idle", "done"}
     /\ \A x \in DeleterIds : deleter[x].pc = "idle")
    => \A oid \in DOMAIN chat_sessions :
           SessionMessages(Str(oid)) # <<>> => chat_sessions[oid].title[1] = "auto"

\* the step at which turn t completes
Completes(t) == turn[t].pc = "appended" /\ turn'[t].pc = "done"

\* C25: the step at which a turn completes moves the updated_at of the turn's
\* session on by one and comes after the append of the turn's assistant
\* message; no other step of a turn changes an updated_at; a turn that is over,
\* completed or not, takes no further step.
C25_TouchOncePerCompletedTurn ==
    [][\A t \in TurnIds :
          /\ (turn'[t] # turn[t] /\ Completes(t)) =>
                /\ \A oid \in DOMAIN chat_sessions :
                      /\ oid \in DOMAIN chat_sessions'
                      /\ chat_sessions'[oid].updated_at =
                            chat_sessions[oid].updated_at + (IF oid = turn[t].sid THEN 1 ELSE 0)
                /\ \/ MessagesDeleted(turn[t].sid)
                   \/ \E i \in AssistantRowOf(chat_messages, t) :
                         chat_messages[i].content = turn[t].full_answer
          /\ (turn'[t] # turn[t] /\ ~Completes(t)) =>
                \A oid \in DOMAIN chat_sessions :
                    /\ oid \in DOMAIN chat_sessions'
                    /\ chat_sessions'[oid].updated_at = chat_sessions[oid].updated_at
          /\ turn[t].pc \in TurnOver => turn'[t] = turn[t]
      ]_vars

\* one turn has completed and one has failed on the session
C25_Witness ==
    /\ turn["t1"].pc = "done"
    /\ turn["t2"].pc = "failed"
    /\ NewObjectId(1) \in DOMAIN chat_sessions
    /\ chat_sessions[NewObjectId(1)].updated_at = 1
    /\ Len(chat_messages) = 3
    /\ AssistantRowOf(chat_messages, "t1") # {}

\* the step at which turn t builds its prompt and starts to stream
BuildsPrompt(t) == turn[t].pc = "history" /\ turn'[t].pc = "streaming"

\* C24: the history a turn reads is empty exactly when the session holds no
\* included message; the prompt handed to llm.stream is the system message
\* with the preamble of the session's mode, which differs between the modes,
\* and one human message that holds, in this order, the history block (the
\* lines of the history read, or the placeholder line when it is empty), the
\* auxiliary block and last the user's message as sent.
C24_PromptOrder ==
    [][\A t \in TurnIds :
          /\ ReadsHistory(t) =>
                (turn'[t].history = <<>>
                    <=> \A m \in Range(SessionMessages(Str(turn[t].sid))) : ~m.included_in_context)
          /\ BuildsPrompt(t) =>
                LET p == turn'[t].final_prompt
                    body == p[2].content
                IN /\ Len(p) = 2 /\ p[1].type = "system" /\ p[2].type = "human"
                   /\ p[1].content = build_system_prompt(turn[t].mode)
                   /\ build_system_prompt("knowledge") # build_system_prompt("analyst")
                   /\ Len(body) = 6
                   /\ <<body[1], body[3], body[5]>> =
                         <<"Here is prior conversation context:", "Additional context:",
                           "User question:">>
                   /\ body[2] = IF turn[t].history = <<>> THEN <<"No prior messages.">>
                                ELSE [i \in DOMAIN turn[t].history |->
                                        <<IF turn[t].history[i][1] = "user" THEN "User"
                                          ELSE "Assistant", ": ", turn[t].history[i][2]>>]
                   /\ body[4] = turn'[t].extra_context /\ body[4] # <<>>
                   /\ body[6] = turn[t].message
      ]_vars

\* a knowledge turn streams on a prompt with the placeholder and the retrieved
\* passages
C24_Witness ==
    /\ turn["t1"].pc = "streaming"
    /\ turn["t1"].mode = "knowledge"
    /\ turn["t1"].final_prompt[2].content[2] = <<"No prior messages.">>
    /\ turn["t1"].final_prompt[2].content[4][1] = "Relevant documents:"
    /\ turn["t1"].docs # <<>>
    /\ turn["t1"].final_prompt[2].content[6] = <<"q">>

\* C26: the passages a knowledge turn keeps are those retrieve_docs_for_user
\* returns when the turn builds its context, before it streams; while the turn
\* streams no step, of the turn or of a selection, an upload, a delete or a
\* hide, changes them; and the sources of the assistant message the turn
\* appends are those passages.
C26_SourcesAreFrozen ==
    [][\A t \in TurnIds :
          /\ (BuildsPrompt(t) /\ turn[t].mode = "knowledge") =>
                turn'[t].docs = retrieve_docs_for_user(turn[t].user_id, turn[t].sid, TopK)
          /\ turn[t].pc = "streaming" =>
                /\ turn'[t].pc \in {"streaming", "appended"}
                /\ turn'[t].docs = turn[t].docs
          /\ (turn[t].pc = "streaming" /\ turn'[t].pc = "appended") =>
                /\ Len(chat_messages') = Len(chat_messages) + 1
                /\ chat_messages'[Len(chat_messages')].turn = t
                /\ chat_messages'[Len(chat_messages')].role = "assistant"
                /\ chat_messages'[Len(chat_messages')].sources = turn[t].docs
      ]_vars

\* the turn has stored sources that a retrieval at that moment would not
\* return: the selection or the registry changed while it streamed
C26_Witness ==
    /\ turn["t1"].pc = "appended"
    /\ turn["t1"].docs # <<>>
    /\ chat_messages[Len(chat_messages)].sources = turn["t1"].docs
    /\ retrieve_docs_for_user(turn["t1"].user_id, turn["t1"].sid, TopK) # turn["t1"].docs
    /\ selects = 1
    /\ \E d \in DOMAIN documents : documents[d].doc_type = "user"

\* C29: at the step at which an update_memory returns when every other one
\* has returned, with no turn under way during any of them, the flags of the
\* session's messages are membership in one requested set of ids: the set of
\* one call for every message, never that of one call for some messages and
\* that of another call for the others.
C29_ConcurrentCurationsDoNotMix ==
    [][\A c \in CuratorIds :
          (Curated(c) /\ \A o \in CuratorIds \ {c} : curator[o].pc = "done") =>
              \E ids \in MemoryChoices :
                  \A m \in Range(MessagesIn(chat_messages', Str(curator[c].sid))) :
                      m.included_in_context <=> (Str(m.id) \in ids)
      ]_vars



\* the hash is registered: a row of a shared document carries it
RegisteredShared(file_hash) ==
    \E d \in DOMAIN documents : /\ documents[d].doc_type = "common"
                                 /\ documents[d].file_hash = file_hash

\* C31: startup embedding of shared documents is idempotent. Once a run of
\* embed_common_docs_on_startup has returned, no step of a later run over the
\* unchanged shared directory adds a document metadata row or an index entry;
\* and in any run, the step that meets a shared file whose hash is registered
\* embeds nothing, allocates no document id and goes on to the next file.
C31_StartupIsIdempotent ==
    [][/\ (startup.completed /\ startup' # startup) =>
            /\ documents' = documents
            /\ collection' = collection
       /\ \A f \in DOMAIN CommonFiles :
            (StartupScan(f) /\ RegisteredShared(compute_file_hash(<<"common", f>>))) =>
                /\ collection' = collection
                /\ documents' = documents
                /\ next_doc' = next_doc
                /\ startup'.pc = "scan"]_vars

\* a run that began after an earlier run had returned has walked the whole
\* shared directory, with the shared document registered and indexed
C31_Witness ==
    /\ startup.completed
    /\ startup.run >= 2
    /\ startup.pc = "scan"
    /\ startup.todo = {}
    /\ \E d \in DOMAIN documents :
          /\ documents[d].doc_type = "common"
          /\ EntriesOf(d) # {}

====
